---- MODULE Spec2Model ----
(***************************************************************************)
(* Model of app.py: the POST /ai handler generate_code, the helper         *)
(* extract_json_from_text and the start-up check of GEMINI_API_KEY.        *)
(*                                                                         *)
(* Raw model text is a sequence of lexical tokens:                         *)
(*   LB "{"   RB "}"   COMMA ","   WS one whitespace character             *)
(*   HTML  the member  "html": "A"      (a member of standard JSON)        *)
(*   NAN   the member  "js": NaN        (accepted by Python's json only)   *)
(*   PROSE any other character (not a brace, not whitespace)               *)
(*   FENCE_JSON the marker ```json      FENCE the marker ```               *)
(***************************************************************************)
EXTENDS Integers, Sequences, FiniteSets, TLC

VARIABLES env, server, pc, body, prompt, reply, resp, calls, nresp, stages,
          text, extracted

vars == <<env, server, pc, body, prompt, reply, resp, calls, nresp, stages,
          text, extracted>>

(* ------------------------------ bounds --------------------------------- *)
MaxLen == 5
MaxReplyLen == 3
MaxPromptLen == 2
NumRequests == 2

(* ------------------------------ tokens --------------------------------- *)
Tokens == {"LB", "RB", "COMMA", "WS", "HTML", "NAN", "PROSE", "FENCE_JSON", "FENCE"}

MemberTokens == {"HTML", "NAN"}

Texts(n) == UNION {[1..k -> Tokens] : k \in 0..n}

\* the key and the value a member token stands for
Member(t) == IF t = "HTML" THEN <<"html", "A">> ELSE <<"js", "NaN">>

(* ------------------- re.search(r'(?:```json)?\s*(\{.*\})\s*(?:```)?') --- *)
\* (?:```json)? : greedy; giving the marker back leaves the attempt on the
\* marker, which is neither whitespace nor "{", so greedy is the only way
SkipFence(t, p) == IF p <= Len(t) /\ t[p] = "FENCE_JSON" THEN p + 1 ELSE p

\* \s* : greedy; giving a whitespace back leaves the attempt on whitespace
RECURSIVE SkipSpace(_, _)
SkipSpace(t, p) == IF p <= Len(t) /\ t[p] = "WS" THEN SkipSpace(t, p + 1) ELSE p

\* .*\} with re.DOTALL: greedy, so the group ends at the last "}" of the text
LastRB(t) == IF \E i \in 1..Len(t) : t[i] = "RB"
             THEN CHOOSE i \in 1..Len(t) : t[i] = "RB" /\ \A j \in (i+1)..Len(t) : t[j] # "RB"
             ELSE 0

\* one attempt of the pattern at position p: the bounds of group 1, or <<>>
MatchAt(t, p) ==
    LET q == SkipSpace(t, SkipFence(t, p))
    IN  IF q <= Len(t) /\ t[q] = "LB" /\ LastRB(t) > q
        THEN <<q, LastRB(t)>>
        ELSE <<>>

\* re.match: the pattern tried at the start of the text only
re_match(t) ==
    IF MatchAt(t, 1) # <<>>
    THEN [found |-> TRUE, group1 |-> SubSeq(t, MatchAt(t, 1)[1], MatchAt(t, 1)[2])]
    ELSE [found |-> FALSE, group1 |-> <<>>]

\* re.search: the leftmost position where the pattern matches
re_search(t) ==
    IF \E p \in 1..Len(t) : MatchAt(t, p) # <<>>
    THEN LET p == CHOOSE p \in 1..Len(t) :
                      MatchAt(t, p) # <<>> /\ \A o \in 1..(p-1) : MatchAt(t, o) = <<>>
         IN  [found |-> TRUE, group1 |-> SubSeq(t, MatchAt(t, p)[1], MatchAt(t, p)[2])]
    ELSE [found |-> FALSE, group1 |-> <<>>]

(* ------------------------------ json.loads ----------------------------- *)
\* dict assignment: a repeated key keeps its place and takes the new value
Put(obj, kv) ==
    IF \E i \in 1..Len(obj) : obj[i][1] = kv[1]
    THEN [i \in 1..Len(obj) |-> IF obj[i][1] = kv[1] THEN kv ELSE obj[i]]
    ELSE Append(obj, kv)

JSONDecodeError == [ok |-> FALSE, obj |-> <<>>]

\* the decoder after the token at i-1; st is what it has just read:
\* "start" nothing, "open" the "{", "member" a member, "comma" a ",",
\* "end" the closing "}"
RECURSIVE Decode(_, _, _, _)
Decode(s, i, st, obj) ==
    IF i > Len(s)
    THEN IF st = "end" THEN [ok |-> TRUE, obj |-> obj] ELSE JSONDecodeError
    ELSE IF s[i] = "WS" THEN Decode(s, i + 1, st, obj)
    ELSE IF st = "end" THEN JSONDecodeError                      \* Extra data
    ELSE IF st = "start"
         THEN IF s[i] = "LB" THEN Decode(s, i + 1, "open", obj) ELSE JSONDecodeError
    ELSE IF s[i] = "RB"
         THEN IF st \in {"open", "member"} THEN Decode(s, i + 1, "end", obj)
              ELSE JSONDecodeError                               \* trailing comma
    ELSE IF s[i] = "COMMA"
         THEN IF st = "member" THEN Decode(s, i + 1, "comma", obj) ELSE JSONDecodeError
    ELSE IF s[i] \in MemberTokens
         THEN IF st \in {"open", "comma"}
              THEN Decode(s, i + 1, "member", Put(obj, Member(s[i])))
              ELSE JSONDecodeError
    ELSE JSONDecodeError                                         \* prose, markers, "{"

json_loads(s) == Decode(s, 1, "start", <<>>)

(* ----------------------- extract_json_from_text ------------------------ *)
NoJsonFound == [raised |-> "ValueError", reason |-> "No JSON found in response", obj |-> <<>>]
InvalidJsonFormat == [raised |-> "ValueError", reason |-> "Invalid JSON format", obj |-> <<>>]

extract_json_from_text(t) ==
    LET json_str == re_search(t)
    IN  IF ~json_str.found THEN NoJsonFound
        ELSE IF ~json_loads(json_str.group1).ok THEN InvalidJsonFormat
        ELSE [raised |-> "none", reason |-> "", obj |-> json_loads(json_str.group1).obj]

NotRun == [raised |-> "not run", reason |-> "", obj |-> <<>>]

(* ------------------------- request bodies ------------------------------ *)
\* what the body of the request is: not parseable as JSON, or a JSON value
RaisingShapes == {"invalid_json", "empty_body"}
FalsyShapes == {"null", "false", "zero", "str_empty", "list_empty", "dict_empty"}
NotIterableShapes == {"true", "number"}
WithoutPromptShapes == {"str_plain", "list_plain", "dict_no_prompt"}
NotSubscriptableShapes == {"str_with_prompt", "list_with_prompt"}

PromptChars == {"SP", "x"}
PromptStrings == UNION {[1..k -> PromptChars] : k \in 0..MaxPromptLen}
NoPrompt == [t |-> "none", s |-> <<>>]
PromptValues == {[t |-> "str", s |-> s] : s \in PromptStrings}
                \cup {[t |-> k, s |-> <<>>] : k \in {"null", "num", "list", "dict"}}

Bodies == {[shape |-> sh, prompt |-> NoPrompt] :
               sh \in RaisingShapes \cup FalsyShapes \cup NotIterableShapes
                      \cup WithoutPromptShapes \cup NotSubscriptableShapes}
          \cup {[shape |-> "dict_prompt", prompt |-> p] : p \in PromptValues}

\* str.strip()
RECURSIVE LStrip(_)
LStrip(s) == IF Len(s) > 0 /\ Head(s) = "SP" THEN LStrip(Tail(s)) ELSE s
RECURSIVE RStrip(_)
RStrip(s) == IF Len(s) > 0 /\ s[Len(s)] = "SP" THEN RStrip(SubSeq(s, 1, Len(s) - 1)) ELSE s
Strip(s) == RStrip(LStrip(s))

(* ------------------------------ responses ------------------------------ *)
NoRaw == [null |-> TRUE, text |-> <<>>]
NoResp == [status |-> 0, fields |-> {}, error |-> "", raw |-> NoRaw, obj |-> <<>>]

ErrorResponse(status, msg) ==
    [status |-> status, fields |-> {"error"}, error |-> msg, raw |-> NoRaw, obj |-> <<>>]

\* a success path that insists on the key html
jsonify_checked(obj) ==
    IF \E i \in 1..Len(obj) : obj[i][1] = "html"
    THEN [status |-> 200, fields |-> {obj[i][1] : i \in 1..Len(obj)}, error |-> "",
          raw |-> [null |-> TRUE, text |-> <<>>], obj |-> obj]
    ELSE [status |-> 502, fields |-> {"error", "raw_response"},
          error |-> "AI returned malformed response",
          raw |-> [null |-> TRUE, text |-> <<>>], obj |-> <<>>]

\* jsonify(generated_code): the body is the object, its fields are its keys
jsonify(obj) ==
    [status |-> 200, fields |-> {obj[i][1] : i \in 1..Len(obj)}, error |-> "",
     raw |-> NoRaw, obj |-> obj]

\* an exception that leaves generate_code: Flask answers 500 through
\* handle_http_error, with the fields error and message
handle_http_error ==
    [status |-> 500, fields |-> {"error", "message"}, error |-> "Internal Server Error",
     raw |-> NoRaw, obj |-> <<>>]

\* except Exception (lines 89-91)
except_Exception == ErrorResponse(500, "Internal server error")

\* the handler of ValueError without the raw text
except_ValueError_no_raw(rep) ==
    [status |-> 502, fields |-> {"error", "raw_response"},
     error |-> "AI returned malformed response", raw |-> NoRaw, obj |-> <<>>]

\* except ValueError (lines 82-87); rep is the local `response`
except_ValueError(rep) ==
    IF rep.kind = "text_raises"
    THEN handle_http_error                       \* response.text raises again
    ELSE [status |-> 502, fields |-> {"error", "raw_response"},
          error |-> "AI returned malformed response",
          raw |-> IF rep.kind = "text" THEN [null |-> FALSE, text |-> rep.text] ELSE NoRaw,
          obj |-> <<>>]

(* ------------------ generate_code, lines 64-70: validation ------------- *)
\* the response validation ends with, NoResp when the prompt is accepted
validate(b) ==
    IF b.shape \in RaisingShapes THEN except_Exception          \* BadRequest from get_json
    ELSE IF b.shape \in FalsyShapes THEN ErrorResponse(400, "Missing 'prompt' in request")
    ELSE IF b.shape \in NotIterableShapes THEN except_Exception \* TypeError from `in`
    ELSE IF b.shape \in WithoutPromptShapes
         THEN ErrorResponse(400, "Missing 'prompt' in request")
    ELSE IF b.shape \in NotSubscriptableShapes THEN except_Exception  \* TypeError from data['prompt']
    ELSE IF b.prompt.t # "str" THEN except_Exception            \* AttributeError from .strip()
    ELSE IF Strip(b.prompt.s) = <<>> THEN ErrorResponse(400, "Prompt cannot be empty")
    ELSE NoResp

(* ------------- generate_code, lines 73-76: the model call -------------- *)
NoReply == [kind |-> "none", text |-> <<>>]

\* what model.generate_content can do: return a response whose .text is a
\* text, return a response whose .text raises ValueError (no valid part),
\* raise a ValueError, raise any other exception
Outcomes(T) == {[kind |-> "text", text |-> t] : t \in T}
               \cup {[kind |-> k, text |-> <<>>] :
                        k \in {"text_raises", "raise_ValueError", "raise_other"}}

Returned(rep) == rep.kind \in {"text", "text_raises"}

\* the response a raising model call ends with
model_failure(rep) ==
    IF rep.kind = "raise_ValueError" THEN except_ValueError(NoReply) ELSE except_Exception

(* ------------- generate_code, lines 79-80: extraction ------------------ *)
after_model(rep) ==
    IF rep.kind = "text_raises" THEN except_ValueError(rep)
    ELSE LET generated_code == extract_json_from_text(rep.text)
         IN  IF generated_code.raised = "ValueError" THEN except_ValueError(rep)
             ELSE jsonify(generated_code.obj)

\* the whole handler as a function of the body and of the model's outcome
generate_code(b, rep) ==
    IF validate(b) # NoResp THEN validate(b)
    ELSE IF ~Returned(rep) THEN model_failure(rep)
    ELSE after_model(rep)

(* ------------------------------ the state ------------------------------ *)
Reqs == 1..NumRequests

NoBody == [shape |-> "none", prompt |-> NoPrompt]

NoRequests ==
    /\ pc = [r \in Reqs |-> "idle"]
    /\ body = [r \in Reqs |-> NoBody]
    /\ prompt = [r \in Reqs |-> <<>>]
    /\ reply = [r \in Reqs |-> NoReply]
    /\ resp = [r \in Reqs |-> NoResp]
    /\ calls = [r \in Reqs |-> 0]
    /\ nresp = [r \in Reqs |-> 0]
    /\ stages = [r \in Reqs |-> <<>>]

EnvValues == {"absent", "empty", "set"}

Init ==
    /\ env \in EnvValues
    /\ server = "importing"
    /\ NoRequests
    /\ text = <<>>
    /\ extracted = NotRun

(* ------------------------------ start-up ------------------------------- *)
StartupNoCheck ==
    /\ server = "importing"
    /\ server' = "serving"
    /\ UNCHANGED <<env, pc, body, prompt, reply, resp, calls, nresp, stages, text, extracted>>

\* lines 24-30: `if not API_KEY: raise RuntimeError`
Startup ==
    /\ server = "importing"
    /\ server' = IF env = "set" THEN "serving" ELSE "crashed"
    /\ UNCHANGED <<env, pc, body, prompt, reply, resp, calls, nresp, stages, text, extracted>>

(* ------------------------------ a request ------------------------------ *)
\* the route hands a POST /ai to generate_code
Receive(r, B) ==
    /\ server = "serving"
    /\ pc[r] = "idle"
    /\ \E b \in B : body' = [body EXCEPT ![r] = b]
    /\ pc' = [pc EXCEPT ![r] = "validating"]
    /\ stages' = [stages EXCEPT ![r] = <<"validating">>]
    /\ UNCHANGED <<env, server, prompt, reply, resp, calls, nresp, text, extracted>>

Respond(r, response) ==
    /\ resp' = [resp EXCEPT ![r] = response]
    /\ nresp' = [nresp EXCEPT ![r] = @ + 1]
    /\ pc' = [pc EXCEPT ![r] = "responded"]
    /\ stages' = [stages EXCEPT ![r] = Append(@, "responding")]

Validate(r) ==
    /\ pc[r] = "validating"
    /\ IF validate(body[r]) # NoResp
       THEN /\ Respond(r, validate(body[r]))
            /\ UNCHANGED prompt
       ELSE /\ prompt' = [prompt EXCEPT ![r] = Strip(body[r].prompt.s)]
            /\ pc' = [pc EXCEPT ![r] = "calling-model"]
            /\ stages' = [stages EXCEPT ![r] = Append(@, "calling-model")]
            /\ UNCHANGED <<resp, nresp>>
    /\ UNCHANGED <<env, server, body, reply, calls, text, extracted>>

CallModelRetry(r, T) ==
    /\ pc[r] = "calling-model"
    /\ calls' = [calls EXCEPT ![r] = @ + 1]
    /\ \E rep \in Outcomes(T) :
          IF Returned(rep)
          THEN /\ reply' = [reply EXCEPT ![r] = rep]
               /\ pc' = [pc EXCEPT ![r] = "extracting"]
               /\ stages' = [stages EXCEPT ![r] = Append(@, "extracting")]
               /\ UNCHANGED <<resp, nresp>>
          ELSE UNCHANGED <<reply, pc, stages, resp, nresp>>
    /\ UNCHANGED <<env, server, body, prompt, text, extracted>>

CallModel(r, T) ==
    /\ pc[r] = "calling-model"
    /\ calls' = [calls EXCEPT ![r] = @ + 1]
    /\ \E rep \in Outcomes(T) :
          /\ reply' = [reply EXCEPT ![r] = rep]
          /\ IF Returned(rep)
             THEN /\ pc' = [pc EXCEPT ![r] = "extracting"]
                  /\ stages' = [stages EXCEPT ![r] = Append(@, "extracting")]
                  /\ UNCHANGED <<resp, nresp>>
             ELSE Respond(r, model_failure(rep))
    /\ UNCHANGED <<env, server, body, prompt, text, extracted>>

\* a handler that keeps `response` in one place for all requests
ExtractShared(r) ==
    /\ pc[r] = "extracting"
    /\ LET q == CHOOSE q \in Reqs : Returned(reply[q]) /\ \A o \in Reqs : Returned(reply[o]) => o <= q
       IN  Respond(r, after_model(reply[q]))
    /\ UNCHANGED <<env, server, body, prompt, reply, calls, text, extracted>>

Extract(r) ==
    /\ pc[r] = "extracting"
    /\ Respond(r, after_model(reply[r]))
    /\ UNCHANGED <<env, server, body, prompt, reply, calls, text, extracted>>

ReplyTexts == Texts(MaxReplyLen)

Next ==
    \/ Startup
    \/ Receive(1, Bodies)
    \/ Validate(1)
    \/ CallModel(1, ReplyTexts)
    \/ Extract(1)

Spec == Init /\ [][Next]_vars

(* ---------------------- concurrent requests ---------------------------- *)
ConcBodies == {b \in Bodies : \/ b.shape \in {"invalid_json", "number", "dict_no_prompt"}
                              \/ b.prompt \in {[t |-> "str", s |-> <<>>],
                                               [t |-> "str", s |-> <<"x">>],
                                               [t |-> "num", s |-> <<>>]}}
ConcTexts == {<<"PROSE">>, <<"LB", "HTML", "RB">>, <<"LB", "PROSE", "RB">>}

InitConc ==
    /\ env = "set"
    /\ server = "serving"
    /\ NoRequests
    /\ text = <<>>
    /\ extracted = NotRun

NextConc ==
    \E r \in Reqs :
        \/ Receive(r, ConcBodies)
        \/ Validate(r)
        \/ CallModel(r, ConcTexts)
        \/ Extract(r)

SpecConc == InitConc /\ [][NextConc]_vars

(* --------------------- the extractor on its own ------------------------ *)
InitExtract ==
    /\ env = "set"
    /\ server = "serving"
    /\ NoRequests
    /\ text \in Texts(MaxLen)
    /\ extracted = NotRun

RunExtract ==
    /\ extracted = NotRun
    /\ extracted' = extract_json_from_text(text)
    /\ UNCHANGED <<env, server, pc, body, prompt, reply, resp, calls, nresp, stages, text>>

NextExtract == RunExtract

SpecExtract == InitExtract /\ [][NextExtract]_vars

(* ======================================================================= *)
(*                               the claims                                *)
(* ======================================================================= *)
Responded(r) == pc[r] = "responded"

\* the body is a JSON value without a key "prompt"
LacksPromptKey(b) == b.shape \notin RaisingShapes \cup {"none", "dict_prompt"}

\* the body is an object whose "prompt" is a string that trims to nothing
EmptyAfterTrim(b) ==
    b.shape = "dict_prompt" /\ b.prompt.t = "str"
    /\ \A i \in 1..Len(b.prompt.s) : b.prompt.s[i] = "SP"

\* the body is an object whose "prompt" is a string that does not trim to nothing
ValidPrompt(b) ==
    b.shape = "dict_prompt" /\ b.prompt.t = "str"
    /\ \E i \in 1..Len(b.prompt.s) : b.prompt.s[i] # "SP"

\* C1: a request whose body lacks the key prompt, or whose prompt is empty
\* after trimming, is answered 400 with an error field, and the model is
\* not called.
C1_Original ==
    \A r \in Reqs :
        Responded(r) /\ (LacksPromptKey(body[r]) \/ EmptyAfterTrim(body[r]))
        => /\ resp[r].status = 400
           /\ "error" \in resp[r].fields
           /\ calls[r] = 0

\* C2: a request whose body is missing or is not valid JSON is answered with
\* a 4xx status and an error message, never 5xx, and the model is not called.
C2_Original ==
    \A r \in Reqs :
        Responded(r) /\ body[r].shape \in RaisingShapes
        => /\ resp[r].status \in 400..499
           /\ "error" \in resp[r].fields
           /\ calls[r] = 0

ClientFailed(rep) == rep.kind \in {"raise_ValueError", "raise_other"}

\* C3: with a valid prompt, any exception of the model call, whatever its
\* type, is answered 500 with a body holding only a generic error message:
\* no raw_response field, never 502.
C3_Original ==
    \A r \in Reqs :
        Responded(r) /\ ValidPrompt(body[r]) /\ ClientFailed(reply[r])
        => /\ resp[r].status = 500
           /\ resp[r].fields = {"error"}
           /\ resp[r].error = "Internal server error"

\* the text has a "{" with a "}" somewhere after it
HasSpan(t) == \E i, j \in 1..Len(t) : i < j /\ t[i] = "LB" /\ t[j] = "RB"

\* C4: when the model's text holds no {...} span, the extractor fails and the
\* answer is 502 with an error field and raw_response equal to that text.
C4_NoSpanIs502 ==
    \A r \in Reqs :
        Responded(r) /\ reply[r].kind = "text" /\ ~HasSpan(reply[r].text)
        => /\ extract_json_from_text(reply[r].text).raised = "ValueError"
           /\ resp[r].status = 502
           /\ resp[r].fields = {"error", "raw_response"}
           /\ resp[r].raw = [null |-> FALSE, text |-> reply[r].text]

C4_Witness ==
    /\ Responded(1) /\ reply[1].kind = "text"
    /\ reply[1].text = <<"PROSE", "RB", "LB">>
    /\ resp[1].status = 502
    /\ resp[1].raw.text = reply[1].text

(* ---- JSON objects as the standard has them, told without the decoder --- *)
StandardMembers == {"HTML"}

NoWS(s) == SelectSeq(s, LAMBDA x : x # "WS")

\* s is the text of one JSON object: "{", members separated by ",", "}"
IsObjectText(s) ==
    LET c == NoWS(s)
    IN  /\ Len(s) >= 2 /\ s[1] = "LB" /\ s[Len(s)] = "RB"
        /\ \/ Len(c) = 2
           \/ /\ Len(c) % 2 = 1
              /\ \A k \in 2..(Len(c) - 1) :
                    IF k % 2 = 0 THEN c[k] \in StandardMembers ELSE c[k] = "COMMA"

\* the object such a text denotes: its keys in order of first appearance
RECURSIVE ObjectOf(_)
ObjectOf(s) ==
    IF s = <<>> THEN <<>>
    ELSE LET rest == ObjectOf(SubSeq(s, 1, Len(s) - 1))
             last == s[Len(s)]
         IN  IF last \in StandardMembers /\ \A i \in 1..Len(rest) : rest[i] # Member(last)
             THEN Append(rest, Member(last))
             ELSE rest

ObjectSpans(t) ==
    {ij \in (1..Len(t)) \X (1..Len(t)) : ij[1] < ij[2] /\ IsObjectText(SubSeq(t, ij[1], ij[2]))}

SingleObject(t) == Cardinality(ObjectSpans(t)) = 1

TheObject(t) == CHOOSE ij \in ObjectSpans(t) : TRUE

Extracted(obj) == [raised |-> "none", reason |-> "", obj |-> obj]

\* C5 as stated: for every text that holds a single well-formed JSON object,
\* fenced or not, with or without prose around it, the extractor returns
\* exactly that object.
C5_Original ==
    extracted # NotRun /\ SingleObject(text)
    => extracted = Extracted(ObjectOf(SubSeq(text, TheObject(text)[1], TheObject(text)[2])))

\* no "{" before the object and no "}" after it
CleanAround(t, ij) ==
    /\ \A i \in 1..(ij[1] - 1) : t[i] # "LB"
    /\ \A j \in (ij[2] + 1)..Len(t) : t[j] # "RB"

\* C5 as amended: for every text that holds a single well-formed JSON object,
\* fenced or not, with or without prose around it, in which no "{" comes
\* before the object and no "}" after it, the extractor returns exactly that
\* object.
C5_CleanSurroundings ==
    extracted # NotRun /\ SingleObject(text) /\ CleanAround(text, TheObject(text))
    => extracted = Extracted(ObjectOf(SubSeq(text, TheObject(text)[1], TheObject(text)[2])))

C5_Witness ==
    /\ text = <<"PROSE", "FENCE_JSON", "LB", "HTML", "RB">>
    /\ extracted = Extracted(<<Member("HTML")>>)

FirstLB(t) == CHOOSE i \in 1..Len(t) : t[i] = "LB" /\ \A o \in 1..(i - 1) : t[o] # "LB"

\* the span from the first "{" to the last "}"
CapturedSpan(t) == SubSeq(t, FirstLB(t), LastRB(t))

\* C6: when the span from the first "{" to the last "}" is not valid JSON, the
\* extractor fails with an error that names the parse problem and returns no
\* object.
C6_Original ==
    extracted # NotRun /\ HasSpan(text) /\ ~IsObjectText(CapturedSpan(text))
    => extracted = InvalidJsonFormat

\* C7: whenever extraction succeeds the answer is 200 and its body is the
\* parsed object as it is, whether or not it has the keys html, css, js.
C7_SuccessIsVerbatim ==
    \A r \in Reqs :
        Responded(r) /\ reply[r].kind = "text"
                     /\ extract_json_from_text(reply[r].text).raised = "none"
        => /\ resp[r].status = 200
           /\ resp[r].obj = extract_json_from_text(reply[r].text).obj
           /\ resp[r].fields = {resp[r].obj[i][1] : i \in 1..Len(resp[r].obj)}
           /\ "error" \notin resp[r].fields

C7_Witness ==
    /\ Responded(1)
    /\ reply[1].text = <<"LB", "NAN", "RB">>
    /\ resp[1].status = 200
    /\ resp[1].fields = {"js"}

\* C8: with the API credential absent from the environment the process never
\* serves: start-up fails before any route handles a call.
C8_NoKeyNoService ==
    env = "absent" => /\ server # "serving"
                      /\ \A r \in Reqs : pc[r] = "idle" /\ nresp[r] = 0

C8_Witness == env = "absent" /\ server = "crashed"

StageOrders ==
    {<<>>,
     <<"validating">>,
     <<"validating", "responding">>,
     <<"validating", "calling-model">>,
     <<"validating", "calling-model", "responding">>,
     <<"validating", "calling-model", "extracting">>,
     <<"validating", "calling-model", "extracting", "responding">>}

Entered(r, stage) == \E i \in 1..Len(stages[r]) : stages[r][i] = stage

\* C9: a request goes through validating, calling-model, extracting,
\* responding in that order and may leave at any stage: the model is called
\* at most once and only after validation succeeded, extraction runs only
\* after the model call returned, a failed call is not retried, and exactly
\* one response is produced.
C9_Stages ==
    \A r \in Reqs :
        /\ stages[r] \in StageOrders
        /\ calls[r] <= 1
        /\ calls[r] = 1 => ValidPrompt(body[r]) /\ Entered(r, "calling-model")
        /\ Entered(r, "extracting") => calls[r] = 1 /\ Returned(reply[r])
        /\ ClientFailed(reply[r]) => calls[r] = 1 /\ Responded(r) /\ ~Entered(r, "extracting")
        /\ nresp[r] <= 1
        /\ Responded(r) <=> nresp[r] = 1
        /\ Responded(r) <=> Entered(r, "responding")

C9_Witness ==
    /\ stages[1] = <<"validating", "calling-model", "responding">>
    /\ reply[1].kind = "raise_other"
    /\ calls[1] = 1 /\ nresp[1] = 1

\* C10: however concurrent requests interleave, the response of each is the
\* one generate_code gives for its own body and the model's reply to it, and
\* a request that has not answered has no response.
C10_OwnInputsOnly ==
    \A r \in Reqs :
        /\ Responded(r) => resp[r] = generate_code(body[r], reply[r])
        /\ ~Responded(r) => resp[r] = NoResp

C10_Witness ==
    /\ Responded(1) /\ Responded(2)
    /\ body[1] = body[2]
    /\ resp[1].status = 200
    /\ resp[2].status = 502 /\ resp[2].raw.text = <<"PROSE">>

====
